---- MODULE Spec2Model ----
(***************************************************************************)
(* apiclient-pydantic-generator: the operation extractor                   *)
(* (apiclient_pydantic_generator/parser.py, class OpenAPIParser) and the   *)
(* generation driver (apiclient_pydantic_generator/__main__.py,            *)
(* generate_code).                                                         *)
(*                                                                         *)
(* Python values are modelled as follows.  None is the record None where   *)
(* an object is expected and the string NoDefault where a string is        *)
(* expected.  A dict is a function whose DOMAIN is its key set.  A string  *)
(* that the code builds by concatenation is the sequence of its pieces.    *)
(* An exception that leaves parse_operation ends the run: it is recorded   *)
(* in the variable error, and no further call is made.                     *)
(*                                                                         *)
(* The base parser of datamodel_code_generator is outside the repository;  *)
(* only what the subclass reads from it is modelled: the order in which    *)
(* its parse_operation invokes the overridden callbacks, the status codes  *)
(* for which its parse_responses returns a data type, and the fact that    *)
(* its parse_schema dereferences the schema it is given.  The models it    *)
(* registers itself for component schemas are not part of the state.       *)
(* snake_case_field is taken at its default (False).                       *)
(***************************************************************************)
EXTENDS Integers, Sequences, FiniteSets, TLC

VARIABLES
    operations,           \* self.operations: resolved path -> Operation
    temporary_operation,  \* self._temporary_operation (dict)
    data_types,           \* self.data_types (list)
    params_classes,       \* self.params_classes (set of class names)
    results,              \* self.results: the bundle models registered for emission
    skip_deprecated,      \* self.skip_deprecated
    error,                \* the exception that ended the run, or "none"
    ncalls,               \* number of parse_operation calls made so far
    lastCall,             \* history: the last parse_operation call and what it did
    pc,                   \* generate_code: position in the function
    config,               \* generate_code: the inputs of the run (fixed by Init)
    output_dir_exists,    \* generate_code: the output directory is on disk
    written,              \* generate_code: the files opened for writing so far
    formatted,            \* generate_code: results (relative path -> formatted text)
    parser_constructed,   \* generate_code: OpenAPIParser(...) has been called
    exit_code             \* generate_code: "running", 0, 1 or "Exception"

parser_vars == <<operations, temporary_operation, data_types, params_classes,
                 results, skip_deprecated, error, ncalls, lastCall>>
driver_vars == <<pc, config, output_dir_exists, written, formatted,
                 parser_constructed, exit_code>>
vars == <<operations, temporary_operation, data_types, params_classes,
          results, skip_deprecated, error, ncalls, lastCall,
          pc, config, output_dir_exists, written, formatted,
          parser_constructed, exit_code>>

-----------------------------------------------------------------------------
(* Bounds *)

MaxCalls == 2
MaxParams == 2
MaxScratchCalls == 3

-----------------------------------------------------------------------------
(* Python values *)

None == [py |-> "None"]
NoDefault == "<None>"
Str(s) == [py |-> "str", value |-> s]
DataType(kind, hint) == [py |-> "DataType", kind |-> kind, type_hint |-> hint]
Schema(type, default) == [py |-> "JsonSchemaObject", type |-> type, default |-> default]

\* dict.get(key) with the default None
Get(d, k) == IF k \in DOMAIN d THEN d[k] ELSE None

\* vars(builtins): the names of it that the model's identifiers can meet
Builtins == {"id", "type", "input", "format", "filter"}

-----------------------------------------------------------------------------
(* The documents: parameter, request body and response declarations *)

Param(n, loc, req, content, has_schema, type, default) ==
    [name |-> n, in_ |-> loc, required |-> req, content |-> content,
     has_schema |-> has_schema, type |-> type, default |-> default]

\* content: "absent" (no content), "inline" (first content holds a schema
\* object), "ref" (first content holds a $ref), "empty" (first content holds
\* no schema); has_schema: the parameter has a schema of its own.
PathId   == Param("id",   "path",   TRUE,  "absent", TRUE,  <<"int">>,  NoDefault)
PathName == Param("name", "path",   FALSE, "ref",    FALSE, <<"Name">>, NoDefault)
QueryQ   == Param("q",    "query",  FALSE, "inline", FALSE, <<"str">>,  "'x'")
HeaderH  == Param("h",    "header", TRUE,  "absent", TRUE,  <<"str">>,  NoDefault)
CookieC  == Param("c",    "cookie", FALSE, "empty",  TRUE,  <<"str">>,  NoDefault)
QueryX   == Param("x",    "query",  FALSE, "absent", FALSE, <<>>,       NoDefault)

DeclaredParamLists ==
    { <<>>, <<PathId>>, <<QueryQ>>, <<HeaderH>>, <<CookieC>>, <<QueryX>>,
      <<PathId, PathName>>, <<PathName, PathId>>, <<QueryQ, PathId>>,
      <<PathId, QueryX>>,
      <<PathId, PathName, QueryQ>> }

ParamLists == {ps \in DeclaredParamLists : Len(ps) <= MaxParams}

\* A media type is the sequence of its pieces: "application/json" is
\* <<"application/", "json">>.
Media(mt, has_schema, type) == [media_type |-> mt, has_schema |-> has_schema, type |-> type]
JsonMedia == Media(<<"application/", "json">>, TRUE, <<"Item">>)

NoBody == None
RequestBody(req, content) == [py |-> "RequestBodyObject", required |-> req, content |-> content]
Bodies == {NoBody, RequestBody(TRUE, <<JsonMedia>>), RequestBody(FALSE, <<JsonMedia>>)}

\* responses: the declared status codes in order, each with the type
\* annotation of its first content that carries a schema, or NoSchema when no
\* content of the code carries one.  A type annotation is the sequence of the
\* pieces of its text.
NoSchema == <<>>
Response(code, hint) == [status_code |-> code, type_hint |-> hint]
NoResponses == <<>>
Resp404 == <<Response("404", <<"Error">>)>>
Resp200 == <<Response("200", <<"QueryRequestOut">>)>>
ResponseSets ==
    { NoResponses,
      Resp404,
      <<Response("200", NoSchema)>>,
      Resp200,
      <<Response("404", <<"Error">>), Response("201", <<"Created">>)>>,
      <<Response("200", NoSchema), Response("202", <<"Accepted">>)>> }

RawOp(ps, body, responses, dep) ==
    [parameters |-> ps, requestBody |-> body, responses |-> responses, deprecated |-> dep]

RawOperations ==
    {RawOp(ps, b, Resp404, FALSE) : ps \in ParamLists, b \in Bodies}
    \cup {RawOp(<<>>, NoBody, r, FALSE) : r \in ResponseSets}
    \cup {RawOp(ps, NoBody, r, TRUE) : ps \in {<<>>, <<PathId>>}, r \in {Resp404, Resp200}}

\* Request bodies that declare several media types, in the order of
\* request_body.content: with and without a schema, matching and not matching
\* RE_APPLICATION_JSON_PATTERN
VndJsonMedia   == Media(<<"application/", "vnd.api+", "json">>, TRUE, <<"Resource">>)
UpperJsonMedia == Media(<<"Application/", "JSON">>, TRUE, <<"Upper">>)
TextJsonMedia  == Media(<<"text/", "json">>, TRUE, <<"Text">>)
BareJsonMedia  == Media(<<"application/", "json">>, FALSE, <<>>)

MediaBodies ==
    { RequestBody(TRUE,  <<JsonMedia, VndJsonMedia>>),
      RequestBody(FALSE, <<VndJsonMedia, JsonMedia>>),
      RequestBody(TRUE,  <<UpperJsonMedia, TextJsonMedia>>),
      RequestBody(FALSE, <<TextJsonMedia, JsonMedia, VndJsonMedia>>),
      RequestBody(TRUE,  <<BareJsonMedia, VndJsonMedia>>),
      RequestBody(FALSE, <<BareJsonMedia>>) }

MediaOperations ==
    {RawOp(ps, b, Resp404, FALSE) : ps \in {<<>>, <<PathId>>}, b \in MediaBodies}

\* Parameters that share the name of another one and differ in type, in
\* required flag and default, or in how the name splits at underscores
PathIdStr  == Param("id",      "path",  TRUE, "absent", TRUE,  <<"str">>, NoDefault)
QueryQReq  == Param("q",       "query", TRUE, "inline", FALSE, <<"str">>, NoDefault)
PathIdName == Param("id_name", "path",  TRUE, "absent", TRUE,  <<"int">>, NoDefault)

BundleParamLists ==
    {ps \in { <<PathId>>, <<PathIdStr>>, <<QueryQ>>, <<QueryQReq>>,
              <<PathIdName>>, <<PathId, PathName>> } : Len(ps) <= MaxParams}

BundleOperations ==
    {RawOp(ps, NoBody, Resp404, FALSE) : ps \in BundleParamLists}

\* path: [source root, path name, method]
Paths == { <<"#/paths", "v1/query", "post">>, <<"#/paths", "items/{id}", "get">> }

-----------------------------------------------------------------------------
(* Argument (parser.py, class Argument) *)

Argument(name, type_hint, default, required) ==
    [name |-> name, type_hint |-> type_hint, default |-> default, required |-> required]

\* Argument.argument: the rendered text, as the sequence of its pieces
argument(self) ==
    LET name == IF self.name \notin Builtins THEN <<self.name>> ELSE <<self.name, "_">>
    IN  IF self.default = NoDefault /\ self.required
        THEN name \o <<": ">> \o self.type_hint
        ELSE name \o <<": ">> \o self.type_hint \o <<" = ">>
                  \o <<IF self.default = NoDefault THEN "None" ELSE self.default>>

\* ', '.join(...)
RECURSIVE Join(_)
Join(texts) ==
    IF texts = <<>> THEN <<>>
    ELSE IF Len(texts) = 1 THEN texts[1]
    ELSE texts[1] \o <<", ">> \o Join(Tail(texts))

-----------------------------------------------------------------------------
(* OpenAPIParser: field derivation *)

\* parse_schema of the base parser reads attributes of the schema object it
\* is given: given None it raises AttributeError.
parse_schema(schema) ==
    IF schema = None
    THEN [raised |-> TRUE, data_type |-> None]
    ELSE [raised |-> FALSE, data_type |-> DataType("schema", schema.type)]

\* parameters.schema_
schema_(parameters) ==
    IF parameters.has_schema THEN Schema(parameters.type, parameters.default) ELSE None

\* get_parameter_field: [raised, field]; field is None when no field is derived
get_parameter_field(parameters) ==
    LET first_content ==
            CASE parameters.content = "ref" ->
                    [data_type |-> DataType("ref", parameters.type),
                     schema |-> Schema(parameters.type, parameters.default)]
              [] parameters.content = "inline" ->
                    [data_type |-> None,
                     schema |-> Schema(parameters.type, parameters.default)]
              [] OTHER -> [data_type |-> None, schema |-> None]
        schema == IF first_content.data_type = None /\ first_content.schema = None
                  THEN schema_(parameters)
                  ELSE first_content.schema
        parsed == IF first_content.data_type = None
                  THEN parse_schema(schema)
                  ELSE [raised |-> FALSE, data_type |-> first_content.data_type]
    IN  IF parsed.raised THEN [raised |-> TRUE, field |-> None]
        ELSE IF schema = None THEN [raised |-> FALSE, field |-> None]
        ELSE [raised |-> FALSE,
              field |-> [py |-> "DataModelField",
                         name |-> parameters.name,
                         data_type |-> parsed.data_type.type_hint,
                         required |-> parameters.required \/ parameters.in_ = "path",
                         default |-> schema.default]]

-----------------------------------------------------------------------------
(* OpenAPIParser: bundle synthesis *)

\* The pieces of a field name between its underscores: name.split('_')
Words(name) == IF name = "id_name" THEN <<"id", "name">> ELSE <<name>>

\* x[0].upper() + x[1:]
Capitalize(word) ==
    CASE word = "id" -> "Id" [] word = "name" -> "Name" [] word = "q" -> "Q"
      [] word = "h" -> "H" [] word = "c" -> "C" [] word = "x" -> "X"
      [] OTHER -> word

\* '_'.join(field.name for field in fields), as the sequence of the pieces
\* between the underscores
RECURSIVE JoinNames(_)
JoinNames(fields) ==
    IF fields = <<>> THEN <<>> ELSE Words(fields[1].name) \o JoinNames(Tail(fields))

\* self._get_model_name(path_name, '', suffix) of the base parser: the upper
\* camel case of path_name, then the suffix
get_model_name(words, suffix) ==
    [i \in 1..Len(words) |-> Capitalize(words[i])] \o <<suffix>>

\* stringcase.snakecase(suffix)
snakecase(suffix) ==
    CASE suffix = "PathParams" -> "path_params"
      [] suffix = "QueryParams" -> "query_params"
      [] OTHER -> suffix

\* create_pydantic_argument without the test on params_classes
create_pydantic_argument_nodedup(S, path, fields, suffix) ==
    LET name == get_model_name(JoinNames(fields), suffix)
        data_model_type == [name |-> name, fields |-> fields, path |-> Append(path, suffix)]
        data_type == DataType("bundle", name)
        ret == Argument(snakecase(suffix), data_type.type_hint, NoDefault, TRUE)
    IN  [ret |-> ret,
         S |-> [S EXCEPT !.results = Append(@, data_model_type),
                         !.params_classes = @ \cup {name},
                         !.data_types = Append(@, data_type)]]

\* create_pydantic_argument with the endpoint's path name in the class name
create_pydantic_argument_pathname(S, path, fields, suffix) ==
    LET name == <<path[2]>> \o get_model_name(JoinNames(fields), suffix)
        data_model_type == [name |-> name, fields |-> fields, path |-> Append(path, suffix)]
        data_type == DataType("bundle", name)
        ret == Argument(snakecase(suffix), data_type.type_hint, NoDefault, TRUE)
    IN  [ret |-> ret,
         S |-> IF name \notin S.params_classes
               THEN [S EXCEPT !.results = Append(@, data_model_type),
                              !.params_classes = @ \cup {name},
                              !.data_types = Append(@, data_type)]
               ELSE S]

\* create_pydantic_argument on the parser state S: [ret, S]
create_pydantic_argument(S, path, fields, suffix) ==
    LET name == get_model_name(JoinNames(fields), suffix)
        data_model_type == [name |-> name, fields |-> fields, path |-> Append(path, suffix)]
        data_type == DataType("bundle", name)
        ret == Argument(snakecase(suffix), data_type.type_hint, NoDefault, TRUE)
    IN  [ret |-> ret,
         S |-> IF name \notin S.params_classes
               THEN [S EXCEPT !.results = Append(@, data_model_type),
                              !.params_classes = @ \cup {name},
                              !.data_types = Append(@, data_type)]
               ELSE S]

-----------------------------------------------------------------------------
(* OpenAPIParser: argument assembly and the ordering pass *)

\* The ordering pass with its test on the flag negated
RECURSIVE RepairLoop_negatedFlag(_, _, _)
RepairLoop_negatedFlag(arguments, i, positional_argument) ==
    IF i > Len(arguments) THEN arguments
    ELSE LET a == arguments[i]
             b == IF ~positional_argument /\ a.required /\ a.default = NoDefault
                  THEN [a EXCEPT !.default = "..."]
                  ELSE a
         IN  RepairLoop_negatedFlag([arguments EXCEPT ![i] = b], i + 1, b.required)

\* lines 310-314: the loop over arguments from index i on, positional_argument
\* being the flag left by the argument before
RECURSIVE RepairLoop(_, _, _)
RepairLoop(arguments, i, positional_argument) ==
    IF i > Len(arguments) THEN arguments
    ELSE LET a == arguments[i]
             b == IF positional_argument /\ a.required /\ a.default = NoDefault
                  THEN [a EXCEPT !.default = "..."]
                  ELSE a
         IN  RepairLoop([arguments EXCEPT ![i] = b], i + 1, b.required)

RepairPass(arguments) == RepairLoop(arguments, 1, FALSE)

\* The fields derived for the parameters at one location, in declaration order
RECURSIVE FieldsAt(_, _)
FieldsAt(parameters, location) ==
    IF parameters = <<>> THEN <<>>
    ELSE LET f == get_parameter_field(Head(parameters)).field
             rest == FieldsAt(Tail(parameters), location)
         IN  IF f # None /\ Head(parameters).in_ = location THEN <<f>> \o rest ELSE rest

\* lines 298-303: the bundle argument of one location added to the list A =
\* [S, arguments] and kept in the scratch dict under key
AddBundle(A, created, key) ==
    [S |-> [created.S EXCEPT !.temp = (key :> created.ret) @@ @],
     arguments |-> Append(A.arguments, created.ret)]

WithBundle(A, path, fields, suffix, key) ==
    IF fields # <<>>
    THEN AddBundle(A, create_pydantic_argument(A.S, path, fields, suffix), key)
    ELSE A

\* lines 305-308
AddRequest(A, request) ==
    IF request # None
    THEN [S |-> [A.S EXCEPT !.temp = ("request" :> request) @@ @],
          arguments |-> Append(A.arguments, request)]
    ELSE A

WithRequest(A) == AddRequest(A, Get(A.S.temp, "_request"))

\* lines 289-297: get_parameter_field raises on one of the parameters
FieldRaises(parameters) ==
    \E i \in 1..Len(parameters) : get_parameter_field(parameters[i]).raised

\* lines 298-308, given the accumulated parameters
AssembleFrom(S, path, parameters) ==
    WithRequest(
        WithBundle(
            WithBundle([S |-> S, arguments |-> <<>>],
                       path, FieldsAt(parameters, "path"), "PathParams", "path_argument"),
            path, FieldsAt(parameters, "query"), "QueryParams", "query_argument"))

\* lines 286-308: the list before the ordering pass.  S is the parser state;
\* the result is [raised, arguments, S].
Assembled(S, raised, A) ==
    IF raised
    THEN [raised |-> TRUE, arguments |-> <<>>, S |-> S]
    ELSE [raised |-> FALSE, arguments |-> A.arguments, S |-> A.S]

AssembleArguments(S, path) ==
    Assembled(S, FieldRaises(Get(S.temp, "_parameters")),
              AssembleFrom(S, path, Get(S.temp, "_parameters")))

\* The Argument objects of the list are the ones the scratch dict holds: a
\* default assigned by the ordering pass shows in both.
Aliased(temp, arguments) ==
    [k \in DOMAIN temp |->
        IF k \in {"path_argument", "query_argument", "request", "_request"} /\ temp[k] # None
        THEN LET same == {i \in 1..Len(arguments) : arguments[i].name = temp[k].name}
             IN  IF same = {} THEN temp[k] ELSE arguments[CHOOSE i \in same : TRUE]
        ELSE temp[k]]

\* lines 310-316 on the assembled list a, arguments being the repaired list
Repaired(a, arguments) ==
    [raised |-> a.raised, assembled |-> a.arguments, arguments |-> arguments,
     S |-> [a.S EXCEPT !.temp = Aliased(@, arguments)]]

RepairAssembled(a) == Repaired(a, RepairPass(a.arguments))

\* get_argument_list: [raised, assembled, arguments, S]
get_argument_list(S, path) == RepairAssembled(AssembleArguments(S, path))

\* line 283 on the result r of get_argument_list
Rendered(r) ==
    [raised |-> r.raised, assembled |-> r.assembled, arguments |-> r.arguments,
     text |-> Join([i \in 1..Len(r.arguments) |-> argument(r.arguments[i])]),
     S |-> r.S]

\* get_arguments: [raised, assembled, arguments, text, S]
get_arguments(S, path) == Rendered(get_argument_list(S, path))

-----------------------------------------------------------------------------
(* OpenAPIParser: request body and responses *)

\* RE_APPLICATION_JSON_PATTERN.match(media_type): ^application/.*json$
RE_APPLICATION_JSON_PATTERN(media_type) ==
    /\ Len(media_type) >= 2
    /\ media_type[1] = "application/"
    /\ media_type[Len(media_type)] = "json"

\* lines 360-376: the loop over request_body.content from index i on
RECURSIVE RequestBodyLoop(_, _, _, _)
RequestBodyLoop(request_body, i, arguments, dts) ==
    IF i > Len(request_body.content)
    THEN [arguments |-> arguments, data_types |-> dts]
    ELSE LET media_obj == request_body.content[i]
         IN  IF media_obj.has_schema /\ RE_APPLICATION_JSON_PATTERN(media_obj.media_type)
             THEN RequestBodyLoop(request_body, i + 1,
                      Append(arguments,
                             Argument("body", media_obj.type, NoDefault, request_body.required)),
                      Append(dts, DataType("body", media_obj.type)))
             ELSE RequestBodyLoop(request_body, i + 1, arguments, dts)

\* Keeping the last argument built instead of the first
KeepFirstRequest_last(S, r) ==
    [S EXCEPT !.data_types = r.data_types,
              !.temp = ("_request" :> (IF r.arguments # <<>>
                                       THEN r.arguments[Len(r.arguments)]
                                       ELSE None)) @@ @]

\* line 377 and the data types appended by the loop
KeepFirstRequest(S, r) ==
    [S EXCEPT !.data_types = r.data_types,
              !.temp = ("_request" :> (IF r.arguments # <<>> THEN r.arguments[1] ELSE None)) @@ @]

parse_request_body(S, request_body) ==
    KeepFirstRequest(S, RequestBodyLoop(request_body, 1, <<>>, S.data_types))

\* super().parse_responses: status code -> data type of the first content of
\* the code that carries a schema; data_types.get(status_code)
BaseResponseDataType(responses, status_code) ==
    LET with == {i \in 1..Len(responses) :
                    /\ responses[i].status_code = status_code
                    /\ responses[i].type_hint # NoSchema}
    IN  IF with = {} THEN None
        ELSE DataType("response", responses[CHOOSE i \in with : \A j \in with : i <= j].type_hint)

\* _get_response: [value, data_types]; value is what the method returns
ReturnTypeHint(response_model, dts) ==
    IF response_model # None
    THEN [value |-> Str(response_model.type_hint), data_types |-> Append(dts, response_model)]
    ELSE [value |-> None, data_types |-> dts]

get_response(status_code, responses, dts) ==
    ReturnTypeHint(BaseResponseDataType(responses, status_code), dts)

\* bool(value) of what _get_response returns
Truthy(value) == value # None /\ value.value # <<>>

\* value.type_hint: only a DataType has the attribute
HasTypeHint(value) == value.py = "DataType"

\* lines 389-391, r being what _get_response gave for the code
SelectResponse(r) ==
    IF HasTypeHint(r.value)
    THEN [raised |-> FALSE, type_hint |-> r.value.type_hint, data_types |-> r.data_types]
    ELSE [raised |-> TRUE, type_hint |-> <<>>, data_types |-> r.data_types]

\* lines 386-392: the loop over the codes from index i on
RECURSIVE ResponsesLoop(_, _, _, _)
RECURSIVE ResponsesStep(_, _, _, _)
ResponsesStep(codes, i, responses, r) ==
    IF Truthy(r.value)
    THEN SelectResponse(r)
    ELSE ResponsesLoop(codes, i + 1, responses, r.data_types)

ResponsesLoop(codes, i, responses, dts) ==
    IF i > Len(codes)
    THEN [raised |-> FALSE, type_hint |-> <<"None">>, data_types |-> dts]
    ELSE ResponsesStep(codes, i, responses, get_response(codes[i], responses, dts))

\* line 392, unless the loop raised
RecordResponse(S, r) ==
    IF r.raised
    THEN [S EXCEPT !.data_types = r.data_types, !.raised = TRUE]
    ELSE [S EXCEPT !.data_types = r.data_types,
                   !.temp = ("response" :> r.type_hint) @@ @]

parse_responses(S, responses) ==
    RecordResponse(S, ResponsesLoop(<<"200", "201", "202">>, 1, responses, S.data_types))

-----------------------------------------------------------------------------
(* OpenAPIParser: parse_operation *)

\* parse_parameters: one call per declared parameter
RECURSIVE parse_parameters(_, _)
parse_parameters(S, parameters) ==
    IF parameters = <<>> THEN S
    ELSE parse_parameters([S EXCEPT !.temp["_parameters"] = Append(@, Head(parameters))],
                          Tail(parameters))

\* super().parse_operation: the callbacks in the order the base parser makes them
AfterParameters(S, raw_operation) ==
    parse_responses(IF raw_operation.requestBody # NoBody
                    THEN parse_request_body(S, raw_operation.requestBody)
                    ELSE S,
                    raw_operation.responses)

BaseParseOperation(S, raw_operation) ==
    AfterParameters(parse_parameters(S, raw_operation.parameters), raw_operation)

\* Operation.safe_name_parameters
safe_name_parameters(parameters) ==
    [i \in 1..Len(parameters) |->
        [name |-> parameters[i].name, in_ |-> parameters[i].in_,
         required |-> parameters[i].required, content |-> parameters[i].content,
         has_schema |-> parameters[i].has_schema, type |-> parameters[i].type,
         default |-> parameters[i].default,
         safe_name |-> IF parameters[i].name \in Builtins
                       THEN <<parameters[i].name, "_">>
                       ELSE <<parameters[i].name>>]]

\* self.model_resolver.resolve_ref(path)
resolve_ref(path) == <<path[1], "/", path[2], "/", path[3]>>

\* Operation(**raw_operation, **self._temporary_operation, path=..., method=...)
Operation(raw_operation, temp, path) ==
    [method |-> path[3],
     path |-> <<"/", path[2]>>,
     parameters |-> safe_name_parameters(raw_operation.parameters),
     responses |-> raw_operation.responses,
     deprecated |-> raw_operation.deprecated,
     arguments |-> IF "arguments" \in DOMAIN temp THEN temp["arguments"] ELSE <<>>,
     path_argument |-> Get(temp, "path_argument"),
     query_argument |-> Get(temp, "query_argument"),
     request |-> Get(temp, "request"),
     response |-> IF "response" \in DOMAIN temp THEN temp["response"] ELSE <<>>]

\* The store keeping the request of the entry it replaces when the new
\* Operation has none
StoreOperation_merging(table, resolved_path, operation) ==
    IF resolved_path \in DOMAIN table
    THEN (resolved_path :>
            [operation EXCEPT !.request =
                IF @ = None THEN table[resolved_path].request ELSE @]) @@ table
    ELSE (resolved_path :> operation) @@ table

\* self.operations[resolved_path] = operation
StoreOperation(table, resolved_path, operation) ==
    (resolved_path :> operation) @@ table

\* The test of line 408 without the skip_deprecated flag
SkipOperation_flagIgnored(skip, raw_operation) == raw_operation.deprecated

\* line 408
SkipOperation(skip, raw_operation) == skip /\ raw_operation.deprecated

\* lines 417-424, a being what get_arguments gave
Finalize(table, raw_operation, path, a, temp) ==
    [raised |-> FALSE, assembled |-> a.assembled, arguments |-> a.arguments,
     S |-> [a.S EXCEPT !.temp = temp],
     operations |-> StoreOperation(table, resolve_ref(path),
                                   Operation(raw_operation, temp, path))]

AfterArguments(table, raw_operation, path, a) ==
    IF a.raised
    THEN [raised |-> TRUE, assembled |-> <<>>, arguments |-> <<>>, S |-> a.S,
          operations |-> table]
    ELSE Finalize(table, raw_operation, path, a, ("arguments" :> a.text) @@ a.S.temp)

\* lines 412-424, S being the parser state after super().parse_operation
AfterBase(table, raw_operation, path, S) ==
    IF S.raised
    THEN [raised |-> TRUE, assembled |-> <<>>, arguments |-> <<>>, S |-> S,
          operations |-> table]
    ELSE AfterArguments(table, raw_operation, path, get_arguments(S, path))

\* Line 411 without line 410: the scratch dict of the endpoint before is kept
ResetScratch_kept(temp) == ("_parameters" :> <<>>) @@ temp

\* lines 410-411: the scratch dict is a new one
ResetScratch(temp) == ("_parameters" :> <<>>)

\* The parser state after the body of parse_operation (lines 410-424):
\* [raised, assembled, arguments, S, operations]
RunOperation(table, S0, raw_operation, path) ==
    AfterBase(table, raw_operation, path,
              BaseParseOperation([S0 EXCEPT !.temp = ResetScratch(@)], raw_operation))

\* History of one call: its inputs, the parser state it started from, whether
\* it was skipped, stored an Operation or raised, and the argument list that
\* get_argument_list assembled and returned.
Before ==
    [operations |-> operations, temporary_operation |-> temporary_operation,
     data_types |-> data_types, params_classes |-> params_classes, results |-> results,
     outcome |-> lastCall.outcome]

Call(path, raw_operation, outcome, assembled, arguments) ==
    [path |-> path, raw |-> raw_operation, outcome |-> outcome,
     assembled |-> assembled, arguments |-> arguments, before |-> Before]

\* One call of parse_operation, the run making at most max_calls of them
parse_operation_within(max_calls, raw_operation, path) ==
    /\ error = "none"
    /\ ncalls < max_calls
    /\ ncalls' = ncalls + 1
    /\ UNCHANGED <<skip_deprecated, driver_vars>>
    /\ IF SkipOperation(skip_deprecated, raw_operation)
       THEN /\ lastCall' = Call(path, raw_operation, "skipped", <<>>, <<>>)
            /\ UNCHANGED <<operations, temporary_operation, data_types,
                           params_classes, results, error>>
       ELSE \E r \in {RunOperation(operations,
                                  [temp |-> temporary_operation, data_types |-> data_types,
                                   params_classes |-> params_classes, results |-> results,
                                   raised |-> FALSE],
                                  raw_operation, path)} :
                /\ operations' = r.operations
                /\ temporary_operation' = r.S.temp
                /\ data_types' = r.S.data_types
                /\ params_classes' = r.S.params_classes
                /\ results' = r.S.results
                /\ error' = IF r.raised THEN "AttributeError" ELSE "none"
                /\ lastCall' = Call(path, raw_operation,
                                    IF r.raised THEN "raised" ELSE "stored",
                                    r.assembled, r.arguments)

parse_operation(raw_operation, path) ==
    parse_operation_within(MaxCalls, raw_operation, path)

-----------------------------------------------------------------------------
(* The parser run on its own: OpenAPIParser(source, skip_deprecated=...) and *)
(* the parse_operation calls that parse() makes                              *)

NoEntries == [k \in {} |-> None]
NoCall ==
    [path |-> <<>>, raw |-> None, outcome |-> "none",
     assembled |-> <<>>, arguments |-> <<>>, before |-> None]

DriverIdle ==
    /\ pc = "idle"
    /\ config = None
    /\ output_dir_exists = FALSE
    /\ written = {}
    /\ formatted = {}
    /\ parser_constructed = FALSE
    /\ exit_code = "running"

Init ==
    /\ operations = NoEntries
    /\ temporary_operation = NoEntries
    /\ data_types = <<>>
    /\ params_classes = {}
    /\ results = <<>>
    /\ skip_deprecated \in BOOLEAN
    /\ error = "none"
    /\ ncalls = 0
    /\ lastCall = NoCall
    /\ DriverIdle

Next ==
    \E raw_operation \in RawOperations, path \in Paths :
        parse_operation(raw_operation, path)

Spec == Init /\ [][Next]_vars

\* The same parser run on the documents whose request bodies declare several
\* media types and whose endpoints declare parameters of the same names
VariantOperations == MediaOperations \cup BundleOperations

NextVariants ==
    \E raw_operation \in VariantOperations, path \in Paths :
        parse_operation(raw_operation, path)

SpecVariants == Init /\ [][NextVariants]_vars

\* The same parser run, longer, on endpoints that declare everything, nothing
\* or one thing each
ScratchOperations ==
    { RawOp(<<QueryQ, PathId>>, RequestBody(TRUE, <<JsonMedia>>), Resp404, FALSE),
      RawOp(<<>>, NoBody, NoResponses, FALSE),
      RawOp(<<QueryQ>>, NoBody, Resp404, FALSE),
      RawOp(<<>>, RequestBody(FALSE, <<JsonMedia>>), Resp404, FALSE),
      RawOp(<<PathId>>, NoBody, Resp404, TRUE),
      RawOp(<<>>, NoBody, Resp200, FALSE) }

NextScratch ==
    \E raw_operation \in ScratchOperations, path \in Paths :
        parse_operation_within(MaxScratchCalls, raw_operation, path)

SpecScratch == Init /\ [][NextScratch]_vars

-----------------------------------------------------------------------------
(* generate_code (__main__.py) *)

\* The alias mapping file: absent from the configuration, or its content
AliasFiles ==
    { [given |-> FALSE, json |-> FALSE, dict |-> FALSE, strings |-> FALSE],
      [given |-> TRUE,  json |-> FALSE, dict |-> FALSE, strings |-> FALSE],
      [given |-> TRUE,  json |-> TRUE,  dict |-> FALSE, strings |-> FALSE],
      [given |-> TRUE,  json |-> TRUE,  dict |-> TRUE,  strings |-> FALSE],
      [given |-> TRUE,  json |-> TRUE,  dict |-> TRUE,  strings |-> TRUE] }

\* The templates that template_dir.rglob('*') yields, in order
TemplateLists == { <<>>, <<"client">>, <<"client", "endpoints">> }

\* MODEL_PATH
MODEL_PATH == "models"

\* What parser.parse() gives: nothing, one module text, several modules, or
\* an exception out of the parser
ParseResults == {"empty", "str", "modules", "raises"}

Configs ==
    [aliases : AliasFiles,
     output_dir_exists : BOOLEAN,
     parse : ParseResults,
     templates : TemplateLists,
     format_fails : SUBSET {"client", "endpoints", MODEL_PATH}]

\* make_aliases: TRUE when it raises typer.Exit(code=Exit.ERROR)
make_aliases(base_aliases) ==
    IF ~base_aliases.json THEN TRUE
    ELSE IF ~base_aliases.dict \/ ~base_aliases.strings THEN TRUE
    ELSE FALSE

Exit(code) ==
    /\ pc' = "done"
    /\ exit_code' = code

\* line 111
MakeOutputDir ==
    /\ pc = "start"
    /\ output_dir_exists' = TRUE
    /\ pc' = "aliases"
    /\ UNCHANGED <<config, written, formatted, parser_constructed, exit_code, parser_vars>>

\* lines 114-116
LoadAliases ==
    /\ pc = "aliases"
    /\ IF config.aliases.given /\ make_aliases(config.aliases)
       THEN Exit("1")
       ELSE pc' = "construct" /\ UNCHANGED exit_code
    /\ UNCHANGED <<config, output_dir_exists, written, formatted, parser_constructed, parser_vars>>

\* lines 118-148
ConstructParser ==
    /\ pc = "construct"
    /\ parser_constructed' = TRUE
    /\ pc' = "parse"
    /\ UNCHANGED <<config, output_dir_exists, written, formatted, exit_code, parser_vars>>

\* lines 149-157
ParseDocument ==
    /\ pc = "parse"
    /\ CASE config.parse = "raises" -> Exit("Exception")
         [] config.parse = "empty" -> Exit("0")
         [] config.parse = "modules" -> Exit("Exception")
         [] OTHER -> pc' = "render" /\ UNCHANGED exit_code
    /\ UNCHANGED <<config, output_dir_exists, written, formatted, parser_constructed, parser_vars>>

\* lines 177-188: one iteration of the loop over the templates
RenderTemplate ==
    /\ pc = "render"
    /\ Cardinality(formatted) < Len(config.templates)
    /\ LET relative_path == config.templates[Cardinality(formatted) + 1]
       IN  IF relative_path \in config.format_fails
           THEN Exit("Exception") /\ UNCHANGED formatted
           ELSE /\ formatted' = formatted \cup {relative_path}
                /\ UNCHANGED <<pc, exit_code>>
    /\ UNCHANGED <<config, output_dir_exists, written, parser_constructed, parser_vars>>

\* lines 190-192: one iteration of the loop over results; the loop starts
\* when the loop over the templates has ended
WriteResult ==
    /\ pc = "render"
    /\ Cardinality(formatted) = Len(config.templates)
    /\ \E i \in 1..Len(config.templates) :
          /\ config.templates[i] \notin written
          /\ \A j \in 1..(i - 1) : config.templates[j] \in written
          /\ written' = written \cup {config.templates[i]}
    /\ UNCHANGED <<pc, config, output_dir_exists, formatted, parser_constructed, exit_code, parser_vars>>

\* lines 194-201: the model file is opened for writing
OpenModelFile ==
    /\ pc = "render"
    /\ Cardinality(formatted) = Len(config.templates)
    /\ \A i \in 1..Len(config.templates) : config.templates[i] \in written
    /\ written' = written \cup {MODEL_PATH}
    /\ pc' = "models"
    /\ UNCHANGED <<config, output_dir_exists, formatted, parser_constructed, exit_code, parser_vars>>

\* lines 203-207: the model text is formatted and printed to the open file
WriteModelFile ==
    /\ pc = "models"
    /\ IF MODEL_PATH \in config.format_fails
       THEN Exit("Exception") /\ UNCHANGED formatted
       ELSE Exit("0") /\ formatted' = formatted \cup {MODEL_PATH}
    /\ UNCHANGED <<config, output_dir_exists, written, parser_constructed, parser_vars>>

InitGen ==
    /\ operations = NoEntries
    /\ temporary_operation = NoEntries
    /\ data_types = <<>>
    /\ params_classes = {}
    /\ results = <<>>
    /\ skip_deprecated = TRUE
    /\ error = "none"
    /\ ncalls = 0
    /\ lastCall = NoCall
    /\ pc = "start"
    /\ config \in Configs
    /\ output_dir_exists = config.output_dir_exists
    /\ written = {}
    /\ formatted = {}
    /\ parser_constructed = FALSE
    /\ exit_code = "running"

NextGen ==
    \/ MakeOutputDir
    \/ LoadAliases
    \/ ConstructParser
    \/ ParseDocument
    \/ RenderTemplate
    \/ WriteResult
    \/ OpenModelFile
    \/ WriteModelFile

SpecGen == InitGen /\ [][NextGen]_vars

-----------------------------------------------------------------------------
(* Properties of the parser run (specification Spec) *)

Stored == lastCall.outcome = "stored"
Ran == lastCall.outcome \in {"stored", "raised"}
Key == resolve_ref(lastCall.path)

\* The declarations of a raw operation, read directly
Resolvable(parameters) ==
    parameters.content \in {"inline", "ref"} \/ parameters.has_schema

AllResolvable(raw_operation) ==
    \A i \in 1..Len(raw_operation.parameters) : Resolvable(raw_operation.parameters[i])

DeclaredWithSchema(responses, code) ==
    \E i \in 1..Len(responses) :
        responses[i].status_code = code /\ responses[i].type_hint # NoSchema

SchemaOf(responses, code) ==
    responses[CHOOSE i \in 1..Len(responses) :
                  responses[i].status_code = code /\ responses[i].type_hint # NoSchema].type_hint

ExpectedResponse(responses) ==
    IF DeclaredWithSchema(responses, "200") THEN SchemaOf(responses, "200")
    ELSE IF DeclaredWithSchema(responses, "201") THEN SchemaOf(responses, "201")
    ELSE IF DeclaredWithSchema(responses, "202") THEN SchemaOf(responses, "202")
    ELSE <<"None">>

NoSuccessSchema(raw_operation) == ExpectedResponse(raw_operation.responses) = <<"None">>

\* C1 (as claimed): every operation that parse_operation runs on, with
\* parameters that resolve, is entered in the operation table with the type
\* annotation of the first of 200, 201, 202 declared with a schema as its
\* response, and with 'None' when none of them has a schema; so {201, 404}
\* gives the 201 type, {404} gives 'None', and the POST on v1/query with the
\* 200 schema QueryRequestOut is at '#/paths/v1/query/post' with the response
\* 'QueryRequestOut'.
C1_ResponseSelected ==
    (Ran /\ AllResolvable(lastCall.raw)) =>
        /\ Stored
        /\ Key \in DOMAIN operations
        /\ operations[Key].response = ExpectedResponse(lastCall.raw.responses)

\* C2 (as claimed): in the ordering pass an argument is given the default
\* '...' exactly when it is required, has no default and the argument before
\* it is non-required or has a default (a placeholder of the same pass
\* included); the pass keeps the order of the arguments.
C2_RepairAfterOptional ==
    Stored =>
        LET pre == lastCall.assembled
            post == lastCall.arguments
        IN  /\ Len(post) = Len(pre)
            /\ \A i \in 1..Len(pre) : post[i].name = pre[i].name
            /\ \A i \in 1..Len(pre) :
                  (post[i].default = "..." /\ pre[i].default = NoDefault)
                  <=> /\ pre[i].required
                      /\ pre[i].default = NoDefault
                      /\ i > 1
                      /\ (~post[i - 1].required \/ post[i - 1].default # NoDefault)

\* The pieces of an argument string: an argument starts at each ": " piece
\* and is in the defaulted form when a " = " piece follows in the same
\* argument.
DefaultedFrom(text, j) ==
    \E m \in (j + 1)..Len(text) :
        text[m] = " = " /\ \A n \in j..m : text[n] # ", "

NoBareAfterDefaulted(text) ==
    \A i, j \in 1..Len(text) :
        (i < j /\ text[i] = " = " /\ text[j] = ": ") => DefaultedFrom(text, j)

\* C3: in the argument string of every operation of the table, no argument
\* in the bare form 'name: type' comes after one in the defaulted form
\* 'name: type = default'.
C3_NoBareAfterDefaulted ==
    \A k \in DOMAIN operations : NoBareAfterDefaulted(operations[k].arguments)

\* C3 witness: an operation with a path bundle, a query bundle and a
\* non-required body is in the table, and so is one with a required body
C3_Witness ==
    /\ \E k \in DOMAIN operations :
          /\ operations[k].path_argument # None
          /\ operations[k].query_argument # None
    /\ \E k \in DOMAIN operations :
          /\ operations[k].path_argument # None
          /\ operations[k].request # None
          /\ ~operations[k].request.required
    /\ \E k \in DOMAIN operations :
          /\ operations[k].request # None
          /\ operations[k].request.required

BundleArguments(arguments) ==
    {i \in 1..Len(arguments) : arguments[i].name \in {"path_params", "query_params"}}

BundleDataTypes(dts) == {i \in 1..Len(dts) : dts[i].kind = "bundle"}

\* C4: no class name has more than one bundle model in results or more than
\* one bundle data type in data_types; a call that asks for a name already in
\* params_classes gets its bundle argument and appends nothing under that name
\* to results or data_types and leaves the name set as it was for that name;
\* when every name it asks for is already there, results, params_classes and
\* the bundle data types are what they were before the call.
C4_BundleRegisteredOnce ==
    /\ \A i, j \in 1..Len(results) : results[i].name = results[j].name => i = j
    /\ \A i, j \in BundleDataTypes(data_types) :
          data_types[i].type_hint = data_types[j].type_hint => i = j
    /\ {results[i].name : i \in 1..Len(results)} = params_classes
    /\ Stored =>
          LET asked == {lastCall.arguments[i].type_hint : i \in BundleArguments(lastCall.arguments)}
              known == lastCall.before.params_classes
          IN  /\ \A n \in asked \cap known :
                    /\ \A i \in (Len(lastCall.before.results) + 1)..Len(results) :
                          results[i].name # n
                    /\ \A i \in (Len(lastCall.before.data_types) + 1)..Len(data_types) :
                          data_types[i].kind = "bundle" => data_types[i].type_hint # n
                    /\ \E f \in {"path_argument", "query_argument"} :
                          /\ operations[Key][f] # None
                          /\ operations[Key][f].type_hint = n
              /\ asked \subseteq known =>
                    /\ results = lastCall.before.results
                    /\ params_classes = known
                    /\ BundleDataTypes(data_types) = BundleDataTypes(lastCall.before.data_types)

\* C4 witness: a stored call whose path bundle name an earlier endpoint had
\* registered
C4_Witness ==
    /\ Stored
    /\ operations[Key].path_argument # None
    /\ operations[Key].path_argument.type_hint \in lastCall.before.params_classes
    /\ results = lastCall.before.results

\* The names of the parameters an Operation declares at one location, in
\* declaration order
RECURSIVE NamesAt(_, _)
NamesAt(parameters, location) ==
    IF parameters = <<>> THEN <<>>
    ELSE (IF Head(parameters).in_ = location THEN <<Head(parameters).name>> ELSE <<>>)
         \o NamesAt(Tail(parameters), location)

Range(seq) == {seq[i] : i \in 1..Len(seq)}

\* The bundle models registered for the path arguments of two operations
PathModelsFor(op1, op2) ==
    {i \in 1..Len(results) :
        results[i].name \in {op1.path_argument.type_hint, op2.path_argument.type_hint}}

\* C5 (as claimed): two endpoints of the table whose path parameters have the
\* same set of field names have exactly one path-bundle model registered for
\* the two of them.
C5_OneModelPerNameSet ==
    \A k1, k2 \in DOMAIN operations :
        LET n1 == NamesAt(operations[k1].parameters, "path")
            n2 == NamesAt(operations[k2].parameters, "path")
        IN  (k1 # k2 /\ n1 # <<>> /\ Range(n1) = Range(n2)) =>
                Cardinality(PathModelsFor(operations[k1], operations[k2])) = 1

\* C5 (amended): two endpoints of the table whose path parameters have the
\* same field names in the same declaration order have exactly one
\* path-bundle model registered for the two of them.
C5_OneModelPerNameSequence ==
    \A k1, k2 \in DOMAIN operations :
        LET n1 == NamesAt(operations[k1].parameters, "path")
            n2 == NamesAt(operations[k2].parameters, "path")
        IN  (k1 # k2 /\ n1 # <<>> /\ n1 = n2) =>
                Cardinality(PathModelsFor(operations[k1], operations[k2])) = 1

\* C5 witness: two endpoints with the same two path parameter names in the
\* same order are in the table
C5_Witness ==
    \E k1, k2 \in DOMAIN operations :
        /\ k1 # k2
        /\ Len(NamesAt(operations[k1].parameters, "path")) = 2
        /\ NamesAt(operations[k1].parameters, "path") = NamesAt(operations[k2].parameters, "path")

\* The declarations of the last call, read directly
DeclaresAt(raw_operation, location) ==
    \E i \in 1..Len(raw_operation.parameters) :
        /\ raw_operation.parameters[i].in_ = location
        /\ Resolvable(raw_operation.parameters[i])

DeclaresJsonBody(raw_operation) ==
    /\ raw_operation.requestBody # NoBody
    /\ \E i \in 1..Len(raw_operation.requestBody.content) :
          LET m == raw_operation.requestBody.content[i]
          IN  m.has_schema /\ Head(m.media_type) = "application/"
                /\ m.media_type[Len(m.media_type)] = "json" /\ Len(m.media_type) > 1

KeepIf(present, name) == IF present THEN <<name>> ELSE <<>>

\* C6: the list get_argument_list returns is the path bundle (iff a path
\* field was derived), then the query bundle (iff a query field was derived),
\* then the body (iff one was extracted), whatever the declaration order;
\* header and cookie parameters add nothing; and the class name of a bundle
\* depends on nothing but its field names in order and its suffix.
C6_ArgumentOrder ==
    /\ Stored =>
          /\ [i \in 1..Len(lastCall.arguments) |-> lastCall.arguments[i].name]
                = KeepIf(DeclaresAt(lastCall.raw, "path"), "path_params")
                  \o KeepIf(DeclaresAt(lastCall.raw, "query"), "query_params")
                  \o KeepIf(DeclaresJsonBody(lastCall.raw), "body")
          /\ (operations[Key].path_argument # None) <=> DeclaresAt(lastCall.raw, "path")
          /\ (operations[Key].query_argument # None) <=> DeclaresAt(lastCall.raw, "query")
          /\ (operations[Key].request # None) <=> DeclaresJsonBody(lastCall.raw)
    /\ \A k1, k2 \in DOMAIN operations : \A loc \in {"path", "query"} :
          LET f == IF loc = "path" THEN "path_argument" ELSE "query_argument"
              suffix == IF loc = "path" THEN "PathParams" ELSE "QueryParams"
          IN  /\ NamesAt(operations[k1].parameters, loc) = NamesAt(operations[k2].parameters, loc)
                    => /\ (operations[k1][f] = None) <=> (operations[k2][f] = None)
                       /\ operations[k1][f] # None =>
                             operations[k1][f].type_hint = operations[k2][f].type_hint
              /\ operations[k1][f] # None =>
                    operations[k1][f].type_hint[Len(operations[k1][f].type_hint)] = suffix

\* C6 witness: a stored call that declares a query parameter before a path
\* parameter and a body, while another endpoint with the same path parameter
\* is in the table
C6_Witness ==
    /\ Stored
    /\ Len(lastCall.arguments) = 3
    /\ lastCall.raw.parameters[1].in_ = "query"
    /\ \E k \in DOMAIN operations :
          /\ k # Key
          /\ operations[k].path_argument # None
          /\ operations[k].path_argument.type_hint = operations[Key].path_argument.type_hint

\* C7: with skip_deprecated no deprecated operation is in the table and a
\* call on one changes nothing of the table, the dedup set, the registered
\* models, data_types or the scratch dict; without it a deprecated operation
\* is run like any other and, when stored, is in the table as deprecated.
C7_SkipDeprecated ==
    /\ skip_deprecated => \A k \in DOMAIN operations : ~operations[k].deprecated
    /\ (lastCall.outcome # "none" /\ lastCall.raw.deprecated /\ skip_deprecated) =>
          /\ lastCall.outcome = "skipped"
          /\ operations = lastCall.before.operations
          /\ params_classes = lastCall.before.params_classes
          /\ results = lastCall.before.results
          /\ data_types = lastCall.before.data_types
          /\ temporary_operation = lastCall.before.temporary_operation
    /\ (lastCall.outcome # "none" /\ ~(lastCall.raw.deprecated /\ skip_deprecated)) =>
          /\ Ran
          /\ Stored <=> (AllResolvable(lastCall.raw) /\ NoSuccessSchema(lastCall.raw))
          /\ Stored => /\ Key \in DOMAIN operations
                       /\ operations[Key].deprecated = lastCall.raw.deprecated

\* C7 witness: with skip_deprecated, a deprecated operation has been skipped
\* after an endpoint with a bundle was stored
C7_Witness ==
    /\ skip_deprecated
    /\ lastCall.outcome = "skipped"
    /\ lastCall.raw.deprecated
    /\ results # <<>>
    /\ DOMAIN operations # {}

\* C7 second case reached: without skip_deprecated a deprecated operation is
\* in the table
C7_DeprecatedStored ==
    /\ ~skip_deprecated
    /\ Stored
    /\ operations[Key].deprecated

\* The Operation of the last call, from the call alone
ArgumentNamed(arguments, name) ==
    IF \E i \in 1..Len(arguments) : arguments[i].name = name
    THEN arguments[CHOOSE i \in 1..Len(arguments) : arguments[i].name = name]
    ELSE None

BuiltByLastCall ==
    [method |-> lastCall.path[3],
     path |-> <<"/", lastCall.path[2]>>,
     parameters |-> safe_name_parameters(lastCall.raw.parameters),
     responses |-> lastCall.raw.responses,
     deprecated |-> lastCall.raw.deprecated,
     arguments |-> Join([i \in 1..Len(lastCall.arguments) |-> argument(lastCall.arguments[i])]),
     path_argument |-> ArgumentNamed(lastCall.arguments, "path_params"),
     query_argument |-> ArgumentNamed(lastCall.arguments, "query_params"),
     request |-> ArgumentNamed(lastCall.arguments, "body"),
     response |-> <<"None">>]

\* C8: a call that stores an Operation puts at its key exactly the Operation
\* built from that call, whatever was at the key before, and leaves every
\* other key as it was; a call that is skipped or raises leaves the table as
\* it was; so the table holds one Operation per key stored, the last one.
C8_LastWriteWins ==
    /\ Stored =>
          /\ DOMAIN operations = DOMAIN lastCall.before.operations \cup {Key}
          /\ operations[Key] = BuiltByLastCall
          /\ \A k \in DOMAIN operations \ {Key} : operations[k] = lastCall.before.operations[k]
    /\ lastCall.outcome \in {"skipped", "raised"} =>
          /\ DOMAIN operations = DOMAIN lastCall.before.operations
          /\ \A k \in DOMAIN operations : operations[k] = lastCall.before.operations[k]

\* C8 witness: a stored call at a key that held an Operation with a body and
\* bundles, the new one having none of them
C8_Witness ==
    /\ Stored
    /\ Key \in DOMAIN lastCall.before.operations
    /\ lastCall.before.operations[Key].request # None
    /\ lastCall.before.operations[Key].path_argument # None
    /\ lastCall.arguments = <<>>

\* C10 (as claimed): a parameter whose schema cannot be resolved is dropped
\* without an error: the call stores its Operation, and the argument list is
\* the one of the same declarations without that parameter.
C10_UnresolvedDropped ==
    (Ran /\ NoSuccessSchema(lastCall.raw)) =>
        /\ error = "none"
        /\ Stored
        /\ [i \in 1..Len(lastCall.arguments) |-> lastCall.arguments[i].name]
              = KeepIf(DeclaresAt(lastCall.raw, "path"), "path_params")
                \o KeepIf(DeclaresAt(lastCall.raw, "query"), "query_params")
                \o KeepIf(DeclaresJsonBody(lastCall.raw), "body")

\* C12 (as claimed): every argument of the list get_argument_list returns
\* that is not required has its default set; so has a body argument built
\* from a request body declared required=false.
C12_OptionalHasDefault ==
    Stored =>
        \A i \in 1..Len(lastCall.arguments) :
            ~lastCall.arguments[i].required => lastCall.arguments[i].default # NoDefault

\* The positions of the media types of a request body whose name matches
\* ^application/.*json$
MatchingMedia(request_body) ==
    {i \in 1..Len(request_body.content) :
        RE_APPLICATION_JSON_PATTERN(request_body.content[i].media_type)}

\* and of those among them that carry a schema
MatchingMediaWithSchema(request_body) ==
    {i \in MatchingMedia(request_body) : request_body.content[i].has_schema}

First(positions) == CHOOSE i \in positions : \A j \in positions : i <= j

\* The body argument of the last call is the one of the media type at the
\* first of the positions, and there is none when there is no position
BodyBuiltFromFirst(positions) ==
    LET request_body == lastCall.raw.requestBody
        body == ArgumentNamed(lastCall.arguments, "body")
    IN  /\ operations[Key].request = body
        /\ Cardinality({i \in 1..Len(lastCall.arguments) :
                            lastCall.arguments[i].name = "body"}) <= 1
        /\ IF positions = {}
           THEN body = None
           ELSE /\ body # None
                /\ body.type_hint = request_body.content[First(positions)].type
                /\ body.required = request_body.required

\* C13 (as claimed): for a stored operation that declares a request body the
\* body argument is the one built from the first declared media type whose
\* name matches ^application/.*json$, with the declared required flag, and
\* there is no body argument when no media type matches.
C13_FirstMatchingMedia ==
    (Stored /\ lastCall.raw.requestBody # NoBody) =>
        BodyBuiltFromFirst(MatchingMedia(lastCall.raw.requestBody))

\* C13 (amended): the body argument is the one built from the first declared
\* media type that carries a schema and whose name matches
\* ^application/.*json$; it is named 'body' and has the declared required
\* flag; later matching media types do not replace it, and there is no body
\* argument when no media type with a schema matches.
C13_FirstMatchingMediaWithSchema ==
    (Stored /\ lastCall.raw.requestBody # NoBody) =>
        BodyBuiltFromFirst(MatchingMediaWithSchema(lastCall.raw.requestBody))

\* C13 witness: a stored operation whose body declares a media type that does
\* not match before two that match, the body argument being present
C13_Witness ==
    /\ Stored
    /\ lastCall.raw.requestBody # NoBody
    /\ Cardinality(MatchingMediaWithSchema(lastCall.raw.requestBody)) = 2
    /\ 1 \notin MatchingMedia(lastCall.raw.requestBody)
    /\ operations[Key].request # None

\* C13, the other cases reached: no media type matches and there is no body
\* argument; the first matching media type carries no schema
C13_NoMatch ==
    /\ Stored
    /\ lastCall.raw.requestBody # NoBody
    /\ MatchingMedia(lastCall.raw.requestBody) = {}
    /\ operations[Key].request = None

C13_SchemaLessFirst ==
    /\ Stored
    /\ lastCall.raw.requestBody # NoBody
    /\ MatchingMedia(lastCall.raw.requestBody) # MatchingMediaWithSchema(lastCall.raw.requestBody)
    /\ operations[Key].request # None

\* A parser that has processed no endpoint
FreshParser ==
    [temp |-> NoEntries, data_types |-> <<>>, params_classes |-> {}, results |-> <<>>,
     raised |-> FALSE]

\* The last call run on a parser that has processed no endpoint
FreshRun == RunOperation(NoEntries, FreshParser, lastCall.raw, lastCall.path)

\* C14: the Operation a call stores, and the scratch dict it leaves, are the
\* ones the same call gives on a parser that has processed no endpoint,
\* whatever calls (stored or skipped) came before; the accumulated parameters
\* are the endpoint's own; an endpoint without request body has no body
\* argument, one without parameters no bundle argument, one without a
\* matching response the response text None.
C14_NoScratchLeak ==
    Stored =>
        /\ operations[Key] = FreshRun.operations[Key]
        /\ temporary_operation = FreshRun.S.temp
        /\ temporary_operation["_parameters"] = lastCall.raw.parameters
        /\ lastCall.raw.requestBody = NoBody =>
              /\ operations[Key].request = None
              /\ \A i \in 1..Len(lastCall.arguments) : lastCall.arguments[i].name # "body"
        /\ lastCall.raw.parameters = <<>> =>
              /\ operations[Key].path_argument = None
              /\ operations[Key].query_argument = None
              /\ operations[Key].parameters = <<>>
        /\ NoSuccessSchema(lastCall.raw) => operations[Key].response = <<"None">>

\* C14 witness: an endpoint that declares nothing is stored as the third
\* call, after a skipped deprecated one, the scratch dict still holding the
\* body, the bundles and the parameters of the first endpoint
C14_Witness ==
    /\ Stored
    /\ ncalls = 3
    /\ lastCall.raw.parameters = <<>>
    /\ lastCall.raw.requestBody = NoBody
    /\ lastCall.before.outcome = "skipped"
    /\ Get(lastCall.before.temporary_operation, "request") # None
    /\ Get(lastCall.before.temporary_operation, "path_argument") # None
    /\ Get(lastCall.before.temporary_operation, "query_argument") # None
    /\ lastCall.before.temporary_operation["_parameters"] # <<>>

\* The models registered for emission under a class name
RegisteredModels(name) == {i \in 1..Len(results) : results[i].name = name}

\* The bundle argument of the last call at a location refers to a registered
\* model whose fields are the ones derived from the call's own parameters
OwnFieldsRegistered(location, bundle) ==
    LET fields == FieldsAt(lastCall.raw.parameters, location)
    IN  fields # <<>> =>
            /\ bundle # None
            /\ RegisteredModels(bundle.type_hint) # {}
            /\ \A i \in RegisteredModels(bundle.type_hint) : results[i].fields = fields

\* C15 (as claimed): the model registered under the class name that an
\* endpoint's bundle argument refers to has the fields derived for that
\* endpoint (names, types, required flags, defaults), also when an earlier
\* endpoint registered the name.
C15_ReusedBundleHasOwnFields ==
    Stored =>
        /\ OwnFieldsRegistered("path", operations[Key].path_argument)
        /\ OwnFieldsRegistered("query", operations[Key].query_argument)

-----------------------------------------------------------------------------
(* Properties of generate_code (specification SpecGen) *)

AliasesMalformed(base_aliases) ==
    base_aliases.given /\ ~(base_aliases.json /\ base_aliases.dict /\ base_aliases.strings)

\* C9 (as claimed): with a malformed alias mapping generate_code ends with
\* exit status 1 before the parser is constructed, and nothing on the output
\* side has been created or written: the output directory is as it was and
\* no file has been opened.
C9_AliasAbortTouchesNothing ==
    (AliasesMalformed(config.aliases) /\ pc \notin {"start", "aliases"}) =>
        /\ exit_code = "1"
        /\ ~parser_constructed
        /\ written = {}
        /\ output_dir_exists = config.output_dir_exists

\* generate_code has ended on a fatal error detected after parse() returned:
\* several modules, or format_code raising on a template or on the model text
FatalAfterParsing ==
    /\ pc = "done"
    /\ exit_code = "Exception"
    /\ config.parse \in {"modules", "str"}

\* C11 (as claimed): when generate_code aborts on a fatal error detected after
\* parsing (several modules, or format_code failing on a rendered template or
\* on the model text), no output file has been written or opened for writing
\* by the run.
C11_NoWriteOnFatalAbort ==
    FatalAfterParsing => written = {}

====
